---- MODULE Spec2Model ----
(***************************************************************************)
(* A model of farmer_puzzle.c: the mastermind-like solver that keeps the   *)
(* remaining possible codes in a linked list threaded through the array    *)
(* all_codes, prunes that list after every guess, and lets THREADS worker  *)
(* threads score the remaining codes to pick the next guess.               *)
(*                                                                         *)
(* Codes are sequences 1..CODE_LENGTH (C index i is TLA+ index i + 1).     *)
(* Node references are indexes into all_codes; NULL is the null pointer.  *)
(***************************************************************************)
EXTENDS Integers, Sequences, FiniteSets, TLC

\* Bounds of the model: the largest universe (DIGITS ^ CODE_LENGTH), the
\* largest base, the longest code, the most worker threads, and the number
\* of calls made by the harness that drives remove_impossible_codes alone.
MaxCodes == 9
MaxDigits == 3
MaxLen == 3
MaxThreads == 2
MaxPrunes == 2

NULL == -1

\* int INITIAL_GUESS = 112: the value used when -g is not given
INITIAL_GUESS_default == 112

\* Code next_guess = NULL: the null Code pointer.
NoCode == <<>>

VARIABLES
  DIGITS, CODE_LENGTH, THREADS, INITIAL_GUESS,  \* program arguments
  code_line,            \* main: the number on the line read from stdin
  code,                 \* main: the secret code made of that number
  all_codes,            \* array of CodeNode: [code, next]
  possible_codes,       \* head of the linked list of remaining codes
  next_guess, next_guess_score, next_guess_lock,
  guess, offer, guesses, possible_code_count,   \* main's loop locals
  partitions, thread, curr_code,                \* main's partition loop
  pc,                   \* main's position
  wpc,                  \* each worker's position
  codes_checked, score, size, best_guess, curr_guess,
  offer_results, min_removed,                   \* each worker's locals
  fault,                \* "none", or the undefined behaviour that stopped the run
  output                \* what main printed: one record per guess

vars == <<DIGITS, CODE_LENGTH, THREADS, INITIAL_GUESS, code_line, code,
          all_codes,
          possible_codes, next_guess, next_guess_score, next_guess_lock,
          guess, offer, guesses, possible_code_count, partitions, thread,
          curr_code, pc, wpc, codes_checked, score, size, best_guess,
          curr_guess, offer_results, min_removed, fault, output>>

config_vars == <<DIGITS, CODE_LENGTH, THREADS, INITIAL_GUESS, code_line,
                 code>>

worker_vars == <<wpc, codes_checked, score, size, best_guess, curr_guess,
                 offer_results, min_removed>>

RECURSIVE Pow(_, _)
Pow(b, e) == IF e = 0 THEN 1 ELSE b * Pow(b, e - 1)

min(a, b) == IF a < b THEN a ELSE b

\* int CODE_COUNT = pow(DIGITS, CODE_LENGTH)
CODE_COUNT == Pow(DIGITS, CODE_LENGTH)

Workers == 0 .. THREADS - 1

(***************************************************************************)
(* int_to_code: the digits of num in base DIGITS, least significant digit  *)
(* written at index CODE_LENGTH - 1 and downwards.  The loop does not stop *)
(* at index 0: a store at a negative index is reported in oob, and what    *)
(* the loop does after it (it never ends when DIGITS is 1) is not followed.*)
(***************************************************************************)
\* int_to_code_loop with the least significant digit first: index counts up.
RECURSIVE int_to_code_loop_counts_up(_, _, _)
int_to_code_loop_counts_up(c, num, index) ==
  IF num = 0 THEN c
  ELSE IF CODE_LENGTH - 1 - index >= CODE_LENGTH THEN [c EXCEPT !.oob = TRUE]
  ELSE int_to_code_loop_counts_up(
         [c EXCEPT !.code[CODE_LENGTH - index] = num % DIGITS],
         num \div DIGITS, index - 1)

RECURSIVE int_to_code_loop(_, _, _)
int_to_code_loop(c, num, index) ==
  IF num = 0 THEN c
  ELSE IF index < 0 THEN [c EXCEPT !.oob = TRUE]
  ELSE int_to_code_loop([c EXCEPT !.code[index + 1] = num % DIGITS],
                        num \div DIGITS, index - 1)

int_to_code(num) ==
  int_to_code_loop([code |-> [i \in 1 .. CODE_LENGTH |-> 0], oob |-> FALSE],
                   num, CODE_LENGTH - 1)

(***************************************************************************)
(* make_guess: goats are the positions where g and c agree; chickens sum,  *)
(* over every digit, the minimum of its counts at the other positions.     *)
(***************************************************************************)
\* make_guess with code_digits counted at every position of c, the goats
\* included.
make_guess_counts_goats(g, c) ==
  LET pos == 1 .. CODE_LENGTH
      guess_digits(v) == Cardinality({i \in pos : g[i] # c[i] /\ g[i] = v})
      code_digits(v) == Cardinality({i \in pos : c[i] = v})
      chick[v \in 0 .. DIGITS] ==
        IF v = 0 THEN 0
        ELSE chick[v - 1] + min(guess_digits(v - 1), code_digits(v - 1))
  IN [goats |-> Cardinality({i \in pos : g[i] = c[i]}),
      chickens |-> chick[DIGITS]]

make_guess(g, c) ==
  LET pos == 1 .. CODE_LENGTH
      guess_digits(v) == Cardinality({i \in pos : g[i] # c[i] /\ g[i] = v})
      code_digits(v) == Cardinality({i \in pos : g[i] # c[i] /\ c[i] = v})
      chick[v \in 0 .. DIGITS] ==
        IF v = 0 THEN 0
        ELSE chick[v - 1] + min(guess_digits(v - 1), code_digits(v - 1))
  IN [goats |-> Cardinality({i \in pos : g[i] = c[i]}),
      chickens |-> chick[DIGITS]]

(***************************************************************************)
(* remove_impossible_codes.  The loop state is [head, ac, prev, curr,      *)
(* count, fault]: head is possible_codes, ac is all_codes.                 *)
(***************************************************************************)
\* is_impossible with the chickens compared by == instead of != .
is_impossible_eq_chickens(possible_offer, f, code_is_guess) ==
  \/ possible_offer.goats # f.goats
  \/ possible_offer.chickens = f.chickens
  \/ code_is_guess

\* The test of lines 220-223: the code at curr is removed.
is_impossible(possible_offer, f, code_is_guess) ==
  \/ possible_offer.goats # f.goats
  \/ possible_offer.chickens # f.chickens
  \/ code_is_guess

\* remove_step with possible_code_count++ outside the else branch.
remove_step_counts_all(st, g, f) ==
  LET curr_c == st.ac[st.curr].code
      possible_offer == make_guess(g, curr_c)
      code_is_guess == \A i \in 1 .. CODE_LENGTH : g[i] = curr_c[i]
      nxt == st.ac[st.curr].next
  IN IF is_impossible(possible_offer, f, code_is_guess)
     THEN IF st.curr = st.head
          THEN [st EXCEPT !.count = @ + 1, !.head = nxt, !.curr = nxt]
          ELSE IF st.prev = NULL
               THEN [st EXCEPT !.fault = TRUE]
               ELSE [st EXCEPT !.count = @ + 1, !.ac[st.prev].next = nxt,
                               !.curr = nxt]
     ELSE [st EXCEPT !.count = @ + 1, !.prev = st.curr, !.curr = nxt]

\* remove_step with prev = curr outside the else branch: prev follows the
\* removed nodes too.
remove_step_prev_always(st, g, f) ==
  LET curr_c == st.ac[st.curr].code
      possible_offer == make_guess(g, curr_c)
      code_is_guess == \A i \in 1 .. CODE_LENGTH : g[i] = curr_c[i]
      nxt == st.ac[st.curr].next
  IN IF is_impossible(possible_offer, f, code_is_guess)
     THEN IF st.curr = st.head
          THEN [st EXCEPT !.head = nxt, !.prev = st.curr, !.curr = nxt]
          ELSE IF st.prev = NULL
               THEN [st EXCEPT !.fault = TRUE]
               ELSE [st EXCEPT !.ac[st.prev].next = nxt, !.prev = st.curr,
                               !.curr = nxt]
     ELSE [st EXCEPT !.count = @ + 1, !.prev = st.curr, !.curr = nxt]

\* One iteration of the while loop.
remove_step(st, g, f) ==
  LET curr_c == st.ac[st.curr].code
      possible_offer == make_guess(g, curr_c)
      code_is_guess == \A i \in 1 .. CODE_LENGTH : g[i] = curr_c[i]
      nxt == st.ac[st.curr].next
  IN IF is_impossible(possible_offer, f, code_is_guess)
     THEN IF st.curr = st.head
          THEN [st EXCEPT !.head = nxt, !.curr = nxt]
          ELSE IF st.prev = NULL
               THEN [st EXCEPT !.fault = TRUE]
               ELSE [st EXCEPT !.ac[st.prev].next = nxt, !.curr = nxt]
     ELSE [st EXCEPT !.count = @ + 1, !.prev = st.curr, !.curr = nxt]

RECURSIVE remove_loop(_, _, _)
remove_loop(st, g, f) ==
  IF st.curr = NULL \/ st.fault THEN st
  ELSE remove_loop(remove_step(st, g, f), g, f)

\* The whole function: the loop, then prev->next = NULL, which dereferences
\* the null pointer when no code was kept.
remove_impossible_codes(head, ac, g, f) ==
  LET st == remove_loop([head |-> head, ac |-> ac, prev |-> NULL,
                         curr |-> head, count |-> 0, fault |-> FALSE], g, f)
  IN IF st.fault \/ st.prev = NULL
     THEN [possible_codes |-> st.head, all_codes |-> st.ac,
           count |-> st.count, fault |-> TRUE]
     ELSE [possible_codes |-> st.head,
           all_codes |-> [st.ac EXCEPT ![st.prev].next = NULL],
           count |-> st.count, fault |-> FALSE]

(***************************************************************************)
(* worker: the scoring of one candidate guess.                             *)
(***************************************************************************)
\* The inner while loop over possible_codes: res is [table, oob], table the
\* CODE_LENGTH * CODE_LENGTH ints of offer_results; a store at an index past
\* the table is reported in oob and changes no bucket.
RECURSIVE tally(_, _, _)
tally(res, g, c) ==
  IF c = NULL THEN res
  ELSE LET o == make_guess(g, all_codes[c].code)
           index == (o.goats * CODE_LENGTH) + o.chickens
       IN tally(IF index < CODE_LENGTH * CODE_LENGTH
                THEN [res EXCEPT !.table[index] = @ + 1]
                ELSE [res EXCEPT !.oob = TRUE],
                g, all_codes[c].next)

\* The for loop of lines 317-329: the least nonzero bucket, CODE_COUNT if none.
RECURSIVE min_loop(_, _, _)
min_loop(table, i, m) ==
  IF i >= CODE_LENGTH * CODE_LENGTH THEN m
  ELSE min_loop(table, i + 1, IF table[i] = 0 THEN m ELSE min(table[i], m))

\* The same loop clears every bucket it reads.
cleared(table) == [i \in DOMAIN table |-> 0]

\* calloc(CODE_LENGTH * CODE_LENGTH, sizeof(int))
zero_table == [i \in 0 .. CODE_LENGTH * CODE_LENGTH - 1 |-> 0]

\* partition_size without the subtraction of the codes given to the threads
\* before t.
partition_size_from_start(count, t) ==
  min(count, (t + 1) * (count \div THREADS))

\* The partition size main gives to thread t.
partition_size(count, t) ==
  min(count, (t + 1) * (count \div THREADS)) - (t * (count \div THREADS))

\* main's walk of n steps along the list; stepping from NULL is a fault.
RECURSIVE walk(_, _)
walk(c, n) ==
  IF n = 0 THEN c
  ELSE IF c = NULL THEN NULL
  ELSE walk(all_codes[c].next, n - 1)

RECURSIVE walk_faults(_, _)
walk_faults(c, n) ==
  IF n = 0 THEN FALSE
  ELSE IF c = NULL THEN TRUE
  ELSE walk_faults(all_codes[c].next, n - 1)

(***************************************************************************)
(* Initial states.                                                         *)
(***************************************************************************)
Configs ==
  {c \in [d : 1 .. MaxDigits, l : 1 .. MaxLen] : Pow(c.d, c.l) <= MaxCodes}

idle_partition == [index |-> NULL, size |-> 0]

\* What main has built when the loop starts (lines 418-441), and the state
\* of threads that do not exist yet.
InitCommon ==
  /\ all_codes = [i \in 0 .. CODE_COUNT - 1 |->
                    [code |-> int_to_code(i).code,
                     next |-> IF i = CODE_COUNT - 1 THEN NULL ELSE i + 1]]
  /\ possible_codes = 0
  /\ next_guess = NoCode
  /\ next_guess_score = 0
  /\ next_guess_lock = NULL
  /\ guess = int_to_code(INITIAL_GUESS).code
  /\ offer = [goats |-> 0, chickens |-> 0]
  /\ guesses = 0
  /\ possible_code_count = 0
  /\ partitions = [t \in Workers |-> idle_partition]
  /\ thread = 0
  /\ curr_code = NULL
  /\ wpc = [w \in Workers |-> "idle"]
  /\ codes_checked = [w \in Workers |-> 0]
  /\ score = [w \in Workers |-> 0]
  /\ size = [w \in Workers |-> 0]
  /\ best_guess = [w \in Workers |-> NULL]
  /\ curr_guess = [w \in Workers |-> NULL]
  /\ offer_results = [w \in Workers |-> zero_table]
  /\ min_removed = [w \in Workers |-> 0]
  /\ fault = "none"
  /\ output = <<>>

\* A session: any configuration, any secret and initial guess of the universe.
Init ==
  /\ \E c \in Configs : DIGITS = c.d /\ CODE_LENGTH = c.l
  /\ THREADS \in 1 .. MaxThreads
  /\ INITIAL_GUESS \in 0 .. CODE_COUNT - 1
  /\ code_line \in 0 .. CODE_COUNT - 1
  /\ code = int_to_code(code_line).code
  /\ pc = "AwaitingGuess"
  /\ InitCommon

(***************************************************************************)
(* main's loop.                                                            *)
(***************************************************************************)
\* Lines 448-455: make the guess and print it.
MakeGuess ==
  /\ fault = "none" /\ pc = "AwaitingGuess"
  /\ offer' = make_guess(guess, code)
  /\ guesses' = guesses + 1
  /\ output' = Append(output, [guess |-> guess, offer |-> offer'])
  /\ pc' = "Scored"
  /\ UNCHANGED <<config_vars, all_codes, possible_codes, next_guess,
                 next_guess_score, next_guess_lock, guess,
                 possible_code_count, partitions, thread, curr_code,
                 worker_vars, fault>>

\* Lines 458-460: leave the loop.
Solve ==
  /\ fault = "none" /\ pc = "Scored"
  /\ offer.goats = CODE_LENGTH
  /\ pc' = "Solved"
  /\ UNCHANGED <<config_vars, all_codes, possible_codes, next_guess,
                 next_guess_score, next_guess_lock, guess, offer, guesses,
                 possible_code_count, partitions, thread, curr_code,
                 worker_vars, fault, output>>

\* Lines 464-473: prune, and set up the partition loop.
Prune ==
  /\ fault = "none" /\ pc = "Scored"
  /\ offer.goats # CODE_LENGTH
  /\ LET r == remove_impossible_codes(possible_codes, all_codes, guess, offer)
     IN /\ possible_codes' = r.possible_codes
        /\ all_codes' = r.all_codes
        /\ IF r.fault
           THEN /\ fault' = "null_deref"
                /\ UNCHANGED <<possible_code_count, curr_code, pc>>
           ELSE /\ fault' = fault
                /\ possible_code_count' = r.count
                /\ curr_code' = r.possible_codes
                /\ pc' = "Pruned"
  /\ thread' = 0
  /\ UNCHANGED <<config_vars, next_guess, next_guess_score, next_guess_lock,
                 guess, offer, guesses, partitions, worker_vars, output>>

\* Lines 476-496, one iteration: fill the partition, start the thread (its
\* locals of lines 276-292 are set from the partition), walk on.
StartThread ==
  /\ fault = "none" /\ pc = "Pruned" /\ thread < THREADS
  /\ LET codes_per_thread == possible_code_count \div THREADS
         p == [index |-> curr_code,
               size |-> partition_size(possible_code_count, thread)]
         steps == IF thread < THREADS - 1 THEN codes_per_thread ELSE 0
     IN /\ partitions' = [partitions EXCEPT ![thread] = p]
        /\ wpc' = [wpc EXCEPT ![thread] = "score"]
        /\ codes_checked' = [codes_checked EXCEPT ![thread] = 0]
        /\ score' = [score EXCEPT ![thread] = 0]
        /\ size' = [size EXCEPT ![thread] = p.size]
        /\ best_guess' = [best_guess EXCEPT ![thread] = NULL]
        /\ curr_guess' = [curr_guess EXCEPT ![thread] = p.index]
        /\ offer_results' = [offer_results EXCEPT ![thread] = zero_table]
        /\ IF walk_faults(curr_code, steps)
           THEN /\ fault' = "null_deref"
                /\ UNCHANGED <<curr_code, thread, pc>>
           ELSE /\ fault' = fault
                /\ curr_code' = walk(curr_code, steps)
                /\ thread' = IF thread + 1 = THREADS THEN 0 ELSE thread + 1
                /\ pc' = IF thread + 1 = THREADS THEN "Join" ELSE "Pruned"
  /\ UNCHANGED <<config_vars, all_codes, possible_codes, next_guess,
                 next_guess_score, next_guess_lock, guess, offer, guesses,
                 possible_code_count, min_removed, output>>

\* JoinThread that returns whether or not the thread has ended.
JoinThread_no_wait ==
  /\ fault = "none" /\ pc = "Join"
  /\ thread' = IF thread + 1 = THREADS THEN 0 ELSE thread + 1
  /\ pc' = IF thread + 1 = THREADS THEN "Joined" ELSE "Join"
  /\ UNCHANGED <<config_vars, all_codes, possible_codes, next_guess,
                 next_guess_score, next_guess_lock, guess, offer, guesses,
                 possible_code_count, partitions, curr_code, worker_vars,
                 fault, output>>

\* Lines 499-501, one iteration: pthread_join returns once the thread ended.
JoinThread ==
  /\ fault = "none" /\ pc = "Join"
  /\ wpc[thread] = "done"
  /\ thread' = IF thread + 1 = THREADS THEN 0 ELSE thread + 1
  /\ pc' = IF thread + 1 = THREADS THEN "Joined" ELSE "Join"
  /\ UNCHANGED <<config_vars, all_codes, possible_codes, next_guess,
                 next_guess_score, next_guess_lock, guess, offer, guesses,
                 possible_code_count, partitions, curr_code, worker_vars,
                 fault, output>>

\* NextGuess without next_guess_score = 0 after the shared guess is taken.
NextGuess_keeps_score ==
  /\ fault = "none" /\ pc = "Joined"
  /\ IF next_guess_score = 0
     THEN IF possible_codes = NULL
          THEN /\ fault' = "null_deref"
               /\ UNCHANGED <<guess, next_guess_score, pc>>
          ELSE /\ guess' = all_codes[possible_codes].code
               /\ pc' = "AwaitingGuess"
               /\ UNCHANGED <<next_guess_score, fault>>
     ELSE /\ guess' = next_guess
          /\ next_guess_score' = next_guess_score
          /\ pc' = "AwaitingGuess"
          /\ fault' = fault
  /\ partitions' = [t \in Workers |-> idle_partition]
  /\ curr_code' = NULL
  /\ wpc' = [w \in Workers |-> "idle"]
  /\ codes_checked' = [w \in Workers |-> 0]
  /\ score' = [w \in Workers |-> 0]
  /\ size' = [w \in Workers |-> 0]
  /\ best_guess' = [w \in Workers |-> NULL]
  /\ curr_guess' = [w \in Workers |-> NULL]
  /\ offer_results' = [w \in Workers |-> zero_table]
  /\ min_removed' = [w \in Workers |-> 0]
  /\ UNCHANGED <<config_vars, all_codes, possible_codes, next_guess,
                 next_guess_lock, offer, guesses, possible_code_count,
                 thread, output>>


\* NextGuess with the fallback taken from all_codes instead of
\* possible_codes.
NextGuess_first_of_all ==
  /\ fault = "none" /\ pc = "Joined"
  /\ IF next_guess_score = 0
     THEN IF possible_codes = NULL
          THEN /\ fault' = "null_deref"
               /\ UNCHANGED <<guess, next_guess_score, pc>>
          ELSE /\ guess' = all_codes[0].code
               /\ pc' = "AwaitingGuess"
               /\ UNCHANGED <<next_guess_score, fault>>
     ELSE /\ guess' = next_guess
          /\ next_guess_score' = 0
          /\ pc' = "AwaitingGuess"
          /\ fault' = fault
  /\ partitions' = [t \in Workers |-> idle_partition]
  /\ curr_code' = NULL
  /\ wpc' = [w \in Workers |-> "idle"]
  /\ codes_checked' = [w \in Workers |-> 0]
  /\ score' = [w \in Workers |-> 0]
  /\ size' = [w \in Workers |-> 0]
  /\ best_guess' = [w \in Workers |-> NULL]
  /\ curr_guess' = [w \in Workers |-> NULL]
  /\ offer_results' = [w \in Workers |-> zero_table]
  /\ min_removed' = [w \in Workers |-> 0]
  /\ UNCHANGED <<config_vars, all_codes, possible_codes, next_guess,
                 next_guess_lock, offer, guesses, possible_code_count,
                 thread, output>>


\* Lines 506-513: choose the next guess.  The threads and the partitions of
\* this round are gone.
NextGuess ==
  /\ fault = "none" /\ pc = "Joined"
  /\ IF next_guess_score = 0
     THEN IF possible_codes = NULL
          THEN /\ fault' = "null_deref"
               /\ UNCHANGED <<guess, next_guess_score, pc>>
          ELSE /\ guess' = all_codes[possible_codes].code
               /\ pc' = "AwaitingGuess"
               /\ UNCHANGED <<next_guess_score, fault>>
     ELSE /\ guess' = next_guess
          /\ next_guess_score' = 0
          /\ pc' = "AwaitingGuess"
          /\ fault' = fault
  /\ partitions' = [t \in Workers |-> idle_partition]
  /\ curr_code' = NULL
  /\ wpc' = [w \in Workers |-> "idle"]
  /\ codes_checked' = [w \in Workers |-> 0]
  /\ score' = [w \in Workers |-> 0]
  /\ size' = [w \in Workers |-> 0]
  /\ best_guess' = [w \in Workers |-> NULL]
  /\ curr_guess' = [w \in Workers |-> NULL]
  /\ offer_results' = [w \in Workers |-> zero_table]
  /\ min_removed' = [w \in Workers |-> 0]
  /\ UNCHANGED <<config_vars, all_codes, possible_codes, next_guess,
                 next_guess_lock, offer, guesses, possible_code_count,
                 thread, output>>

(***************************************************************************)
(* worker.                                                                 *)
(***************************************************************************)
\* Lines 295-340, one iteration of the outer loop: score curr_guess against
\* every possible code.  The store past the end of offer_results is
\* undefined behaviour: it is lost in memory the worker never reads, or it
\* stops the run.
WorkerScore(w) ==
  /\ fault = "none" /\ wpc[w] = "score"
  /\ codes_checked[w] < size[w]
  /\ curr_guess[w] # NULL
  /\ LET res == tally([table |-> offer_results[w], oob |-> FALSE],
                      all_codes[curr_guess[w]].code, possible_codes)
         m == min_loop(res.table, 0, CODE_COUNT)
     IN \E outcome \in (IF res.oob THEN {"lost", "stopped"} ELSE {"inside"}) :
          IF outcome = "stopped"
          THEN /\ fault' = "oob_store"
               /\ UNCHANGED <<codes_checked, score, best_guess, curr_guess,
                              offer_results, min_removed>>
          ELSE /\ fault' = fault
               /\ offer_results' = [offer_results EXCEPT ![w] = cleared(res.table)]
               /\ min_removed' = [min_removed EXCEPT ![w] = m]
               /\ score' = [score EXCEPT ![w] = IF m > @ THEN m ELSE @]
               /\ best_guess' = [best_guess EXCEPT
                                   ![w] = IF m > score[w] THEN curr_guess[w] ELSE @]
               /\ curr_guess' = [curr_guess EXCEPT
                                   ![w] = all_codes[curr_guess[w]].next]
               /\ codes_checked' = [codes_checked EXCEPT ![w] = @ + 1]
  /\ UNCHANGED <<config_vars, all_codes, possible_codes, next_guess,
                 next_guess_score, next_guess_lock, guess, offer, guesses,
                 possible_code_count, partitions, thread, curr_code, pc,
                 wpc, size, output>>

\* WorkerLock that does not wait for the lock to be free.
WorkerLock_no_wait(w) ==
  /\ fault = "none" /\ wpc[w] = "score"
  /\ codes_checked[w] >= size[w] \/ curr_guess[w] = NULL
  /\ next_guess_lock' = w
  /\ wpc' = [wpc EXCEPT ![w] = "cs"]
  /\ UNCHANGED <<config_vars, all_codes, possible_codes, next_guess,
                 next_guess_score, guess, offer, guesses,
                 possible_code_count, partitions, thread, curr_code, pc,
                 codes_checked, score, size, best_guess, curr_guess,
                 offer_results, min_removed, fault, output>>

\* Lines 295-296 and 343-346: the loop is over; take next_guess_lock.
WorkerLock(w) ==
  /\ fault = "none" /\ wpc[w] = "score"
  /\ codes_checked[w] >= size[w] \/ curr_guess[w] = NULL
  /\ next_guess_lock = NULL
  /\ next_guess_lock' = w
  /\ wpc' = [wpc EXCEPT ![w] = "cs"]
  /\ UNCHANGED <<config_vars, all_codes, possible_codes, next_guess,
                 next_guess_score, guess, offer, guesses,
                 possible_code_count, partitions, thread, curr_code, pc,
                 codes_checked, score, size, best_guess, curr_guess,
                 offer_results, min_removed, fault, output>>

\* Lines 347-350: install the local best if it beats the shared one.
WorkerInstall(w) ==
  /\ fault = "none" /\ wpc[w] = "cs"
  /\ IF score[w] > next_guess_score
     THEN IF best_guess[w] = NULL
          THEN /\ fault' = "null_deref"
               /\ UNCHANGED <<next_guess, next_guess_score, wpc>>
          ELSE /\ next_guess' = all_codes[best_guess[w]].code
               /\ next_guess_score' = score[w]
               /\ wpc' = [wpc EXCEPT ![w] = "unlock"]
               /\ fault' = fault
     ELSE /\ wpc' = [wpc EXCEPT ![w] = "unlock"]
          /\ UNCHANGED <<next_guess, next_guess_score, fault>>
  /\ UNCHANGED <<config_vars, all_codes, possible_codes, next_guess_lock,
                 guess, offer, guesses, possible_code_count, partitions,
                 thread, curr_code, pc, codes_checked, score, size,
                 best_guess, curr_guess, offer_results, min_removed, output>>

\* Lines 351-353: release the lock and end.
WorkerUnlock(w) ==
  /\ fault = "none" /\ wpc[w] = "unlock"
  /\ next_guess_lock' = NULL
  /\ wpc' = [wpc EXCEPT ![w] = "done"]
  /\ UNCHANGED <<config_vars, all_codes, possible_codes, next_guess,
                 next_guess_score, guess, offer, guesses,
                 possible_code_count, partitions, thread, curr_code, pc,
                 codes_checked, score, size, best_guess, curr_guess,
                 offer_results, min_removed, fault, output>>

Next ==
  \/ MakeGuess
  \/ Solve
  \/ Prune
  \/ StartThread
  \/ JoinThread
  \/ NextGuess
  \/ \E w \in Workers : WorkerScore(w)
  \/ \E w \in Workers : WorkerLock(w)
  \/ \E w \in Workers : WorkerInstall(w)
  \/ \E w \in Workers : WorkerUnlock(w)

Spec == Init /\ [][Next]_vars

(***************************************************************************)
(* remove_impossible_codes on its own: from the list main builds, calls    *)
(* with any guess of the universe and any offer, also offers that no       *)
(* remaining code is consistent with.                                      *)
(***************************************************************************)
InitPrune ==
  /\ \E c \in Configs : DIGITS = c.d /\ CODE_LENGTH = c.l
  /\ THREADS = 1
  /\ INITIAL_GUESS = 0
  /\ code_line = 0
  /\ code = int_to_code(code_line).code
  /\ pc = "Harness"
  /\ InitCommon

PruneCall ==
  /\ fault = "none" /\ pc = "Harness"
  /\ guesses < MaxPrunes
  /\ \E n \in 0 .. CODE_COUNT - 1 :
       \E f \in [goats : 0 .. CODE_LENGTH, chickens : 0 .. CODE_LENGTH] :
         LET g == int_to_code(n).code
             r == remove_impossible_codes(possible_codes, all_codes, g, f)
         IN /\ guess' = g
            /\ offer' = f
            /\ possible_codes' = r.possible_codes
            /\ all_codes' = r.all_codes
            /\ IF r.fault
               THEN /\ fault' = "null_deref"
                    /\ UNCHANGED possible_code_count
               ELSE /\ fault' = fault
                    /\ possible_code_count' = r.count
  /\ guesses' = guesses + 1
  /\ UNCHANGED <<config_vars, next_guess, next_guess_score, next_guess_lock,
                 partitions, thread, curr_code, pc, worker_vars, output>>

NextPrune == PruneCall

SpecPrune == InitPrune /\ [][NextPrune]_vars

(***************************************************************************)
(* One round of main's loop from the prune on (lines 462-513), entered     *)
(* with any guess of the universe and any offer with a goat missing, also  *)
(* offers that no possible code is consistent with.                        *)
(***************************************************************************)
InitRound ==
  /\ \E c \in Configs : DIGITS = c.d /\ CODE_LENGTH = c.l
  /\ THREADS \in 1 .. MaxThreads
  /\ INITIAL_GUESS \in 0 .. CODE_COUNT - 1
  /\ code_line = 0
  /\ code = int_to_code(code_line).code
  /\ pc = "Scored"
  /\ all_codes = [i \in 0 .. CODE_COUNT - 1 |->
                    [code |-> int_to_code(i).code,
                     next |-> IF i = CODE_COUNT - 1 THEN NULL ELSE i + 1]]
  /\ possible_codes = 0
  /\ next_guess = NoCode
  /\ next_guess_score = 0
  /\ next_guess_lock = NULL
  /\ guess = int_to_code(INITIAL_GUESS).code
  /\ offer \in [goats : 0 .. CODE_LENGTH - 1, chickens : 0 .. CODE_LENGTH]
  /\ guesses = 1
  /\ possible_code_count = 0
  /\ partitions = [t \in Workers |-> idle_partition]
  /\ thread = 0
  /\ curr_code = NULL
  /\ wpc = [w \in Workers |-> "idle"]
  /\ codes_checked = [w \in Workers |-> 0]
  /\ score = [w \in Workers |-> 0]
  /\ size = [w \in Workers |-> 0]
  /\ best_guess = [w \in Workers |-> NULL]
  /\ curr_guess = [w \in Workers |-> NULL]
  /\ offer_results = [w \in Workers |-> zero_table]
  /\ min_removed = [w \in Workers |-> 0]
  /\ fault = "none"
  /\ output = <<[guess |-> guess, offer |-> offer]>>

NextRound ==
  \/ Prune
  \/ StartThread
  \/ JoinThread
  \/ NextGuess
  \/ \E w \in Workers : WorkerScore(w)
  \/ \E w \in Workers : WorkerLock(w)
  \/ \E w \in Workers : WorkerInstall(w)
  \/ \E w \in Workers : WorkerUnlock(w)

SpecRound == InitRound /\ [][NextRound]_vars

(***************************************************************************)
(* make_guess on its own: one call with any two codes of the universe.     *)
(***************************************************************************)
InitEval ==
  /\ \E c \in Configs : DIGITS = c.d /\ CODE_LENGTH = c.l
  /\ THREADS = 1
  /\ INITIAL_GUESS \in 0 .. CODE_COUNT - 1
  /\ code_line \in 0 .. CODE_COUNT - 1
  /\ code = int_to_code(code_line).code
  /\ pc = "Eval"
  /\ InitCommon

EvalCall ==
  /\ fault = "none" /\ pc = "Eval"
  /\ offer' = make_guess(guess, code)
  /\ pc' = "Evaluated"
  /\ UNCHANGED <<config_vars, all_codes, possible_codes, next_guess,
                 next_guess_score, next_guess_lock, guess, guesses,
                 possible_code_count, partitions, thread, curr_code,
                 worker_vars, fault, output>>

NextEval == EvalCall

SpecEval == InitEval /\ [][NextEval]_vars

(***************************************************************************)
(* main before its loop (lines 408-441): the three places that call        *)
(* int_to_code, with any number on the input line and any initial guess,   *)
(* the default one included, not only those below CODE_COUNT.  A store at  *)
(* a negative index of the new code is undefined behaviour: it is lost in  *)
(* memory the program never reads, or it stops the run.                    *)
(***************************************************************************)
InitStart ==
  /\ \E c \in Configs : DIGITS = c.d /\ CODE_LENGTH = c.l
  /\ THREADS = 1
  /\ INITIAL_GUESS \in (0 .. MaxCodes) \cup {INITIAL_GUESS_default}
  /\ code_line \in 0 .. MaxCodes
  /\ code = NoCode
  /\ pc = "Start"
  /\ all_codes = <<>>
  /\ possible_codes = NULL
  /\ next_guess = NoCode
  /\ next_guess_score = 0
  /\ next_guess_lock = NULL
  /\ guess = NoCode
  /\ offer = [goats |-> 0, chickens |-> 0]
  /\ guesses = 0
  /\ possible_code_count = 0
  /\ partitions = [t \in Workers |-> idle_partition]
  /\ thread = 0
  /\ curr_code = NULL
  /\ wpc = [w \in Workers |-> "idle"]
  /\ codes_checked = [w \in Workers |-> 0]
  /\ score = [w \in Workers |-> 0]
  /\ size = [w \in Workers |-> 0]
  /\ best_guess = [w \in Workers |-> NULL]
  /\ curr_guess = [w \in Workers |-> NULL]
  /\ offer_results = [w \in Workers |-> zero_table]
  /\ min_removed = [w \in Workers |-> 0]
  /\ fault = "none"
  /\ output = <<>>

\* Line 418: the secret code.
ReadSecret ==
  /\ fault = "none" /\ pc = "Start"
  /\ LET r == int_to_code(code_line)
     IN \E outcome \in (IF r.oob THEN {"lost", "stopped"} ELSE {"inside"}) :
          IF outcome = "stopped"
          THEN fault' = "oob_store" /\ UNCHANGED <<code, pc>>
          ELSE fault' = fault /\ code' = r.code /\ pc' = "SecretRead"
  /\ UNCHANGED <<DIGITS, CODE_LENGTH, THREADS, INITIAL_GUESS, code_line,
                 all_codes, possible_codes, next_guess, next_guess_score,
                 next_guess_lock, guess, offer, guesses, possible_code_count,
                 partitions, thread, curr_code, worker_vars, output>>

\* Lines 421-436: all_codes, one node per number below CODE_COUNT, and the
\* list of possible codes through all of them.
BuildCodes ==
  /\ fault = "none" /\ pc = "SecretRead"
  /\ LET oob == \E i \in 0 .. CODE_COUNT - 1 : int_to_code(i).oob
     IN \E outcome \in (IF oob THEN {"lost", "stopped"} ELSE {"inside"}) :
          IF outcome = "stopped"
          THEN fault' = "oob_store" /\ UNCHANGED <<all_codes, possible_codes, pc>>
          ELSE /\ fault' = fault
               /\ all_codes' =
                    [i \in 0 .. CODE_COUNT - 1 |->
                       [code |-> int_to_code(i).code,
                        next |-> IF i = CODE_COUNT - 1 THEN NULL ELSE i + 1]]
               /\ possible_codes' = 0
               /\ pc' = "Built"
  /\ UNCHANGED <<config_vars, next_guess, next_guess_score, next_guess_lock,
                 guess, offer, guesses, possible_code_count, partitions,
                 thread, curr_code, worker_vars, output>>

\* Lines 439-441: the first guess.
FirstGuess ==
  /\ fault = "none" /\ pc = "Built"
  /\ LET r == int_to_code(INITIAL_GUESS)
     IN \E outcome \in (IF r.oob THEN {"lost", "stopped"} ELSE {"inside"}) :
          IF outcome = "stopped"
          THEN fault' = "oob_store" /\ UNCHANGED <<guess, pc>>
          ELSE fault' = fault /\ guess' = r.code /\ pc' = "AwaitingGuess"
  /\ UNCHANGED <<config_vars, all_codes, possible_codes, next_guess,
                 next_guess_score, next_guess_lock, offer, guesses,
                 possible_code_count, partitions, thread, curr_code,
                 worker_vars, output>>

NextStart ==
  \/ ReadSecret
  \/ BuildCodes
  \/ FirstGuess

SpecStart == InitStart /\ [][NextStart]_vars

(***************************************************************************)
(* Views of the state used by the properties.                              *)
(***************************************************************************)
\* The nodes of the list from c on; fuel stops a walk round a cycle.
RECURSIVE list_from(_, _, _)
list_from(c, ac, fuel) ==
  IF c = NULL \/ fuel = 0 THEN <<>>
  ELSE <<c>> \o list_from(ac[c].next, ac, fuel - 1)

RemainingNodes(head, ac) == list_from(head, ac, CODE_COUNT + 1)

RemainingCodes(head, ac) ==
  LET l == RemainingNodes(head, ac) IN [k \in 1 .. Len(l) |-> ac[l[k]].code]

RemainingSet(head, ac) ==
  LET l == RemainingCodes(head, ac) IN {l[k] : k \in 1 .. Len(l)}

\* The codes of R, in order, that are not g and answer g with the offer f.
Survivors(R, g, f) ==
  SelectSeq(R, LAMBDA c : c # g /\ make_guess(g, c) = f)

(***************************************************************************)
(* Properties.                                                             *)
(***************************************************************************)
\* The run is over: main left its loop, or undefined behaviour stopped it.
Halted == pc = "Solved" \/ fault # "none"

\* C1: a session has finitely many rounds, never more than there are codes,
\* and it stops only Solved, with the secret as its last guess and
\* CODE_LENGTH goats as its last offer.
C1_StopsOnlySolved ==
  /\ guesses <= CODE_COUNT
  /\ Halted => (pc = "Solved" /\ guess = code /\ offer.goats = CODE_LENGTH)

\* The score of g against the codes R by the policy of the worker: the least
\* nonzero count over the buckets of the table, CODE_COUNT when all are zero.
RefScore(g, R) ==
  LET index(c) == (make_guess(g, c).goats * CODE_LENGTH) + make_guess(g, c).chickens
      bucket(i) == Cardinality({k \in 1 .. Len(R) : index(R[k]) = i})
      counts == {bucket(i) : i \in 0 .. CODE_LENGTH * CODE_LENGTH - 1} \ {0}
  IN IF counts = {} THEN CODE_COUNT
     ELSE CHOOSE m \in counts : \A n \in counts : m <= n

\* The first code of R with the greatest score.
RefBest(R) ==
  LET k == CHOOSE j \in 1 .. Len(R) :
             /\ \A i \in 1 .. Len(R) : RefScore(R[i], R) <= RefScore(R[j], R)
             /\ \A i \in 1 .. j - 1 : RefScore(R[i], R) < RefScore(R[j], R)
  IN R[k]

\* The guesses and offers of a session with one worker that starts with the
\* guess g and the remaining codes R.
RECURSIVE RefRun(_, _, _)
RefRun(g, R, out) ==
  LET o == make_guess(g, code)
      printed == Append(out, [guess |-> g, offer |-> o])
      left == Survivors(R, g, o)
  IN IF o.goats = CODE_LENGTH \/ left = <<>> THEN printed
     ELSE RefRun(RefBest(left), left, printed)

\* C9: with one worker, every run of a configuration and secret that has
\* come to its end has printed the same guesses and offers.
C9_SingleWorkerSameOutput ==
  (THREADS = 1 /\ (pc = "Solved" \/ fault # "none")) =>
    output = RefRun(int_to_code(INITIAL_GUESS).code,
                    [n \in 1 .. CODE_COUNT |-> int_to_code(n - 1).code], <<>>)

\* C10: with two digits and codes of length one, a session makes at most
\* two guesses and stops only Solved.
C10_SolvedInTwoRounds ==
  (DIGITS = 2 /\ CODE_LENGTH = 1) =>
    /\ guesses <= 2
    /\ Halted => pc = "Solved"

\* C2: the remaining-candidate count that prune returns is strictly smaller
\* in each round than in the round before, and in round 1 strictly smaller
\* than the size of the universe.
C2_CountStrictlyDecreases ==
  [][(pc = "Scored" /\ pc' = "Pruned") =>
       possible_code_count' <
         (IF guesses = 1 THEN CODE_COUNT ELSE possible_code_count)]_vars

\* A second round has pruned and left codes.
C2_Witness ==
  /\ pc = "Pruned" /\ guesses >= 2
  /\ possible_code_count >= 1

\* C3: when at least one candidate survives, prune(g, f) leaves exactly the
\* codes of the remaining list that are not g and answer g with f, in the
\* same order: the list did not grow, g is not in it, and the count
\* returned is its length.
C3_PruneLeavesExactlySurvivors ==
  [][(pc = "Harness" /\ guesses' = guesses + 1
        /\ Survivors(RemainingCodes(possible_codes, all_codes),
                     guess', offer') # <<>>) =>
       LET before == RemainingCodes(possible_codes, all_codes)
           after == RemainingCodes(possible_codes', all_codes')
       IN /\ fault' = "none"
          /\ after = Survivors(before, guess', offer')
          /\ \A k \in 1 .. Len(after) : after[k] # guess'
          /\ Len(after) <= Len(before)
          /\ possible_code_count' = Len(after)]_vars

\* Two calls have removed the first, the last and a middle node between two
\* survivors.
C3_Witness ==
  /\ pc = "Harness" /\ guesses = 2 /\ fault = "none"
  /\ LET l == RemainingNodes(possible_codes, all_codes)
     IN /\ Len(l) >= 2
        /\ l[1] > 0
        /\ l[Len(l)] < CODE_COUNT - 1
        /\ \E k \in 1 .. Len(l) - 1 : l[k + 1] > l[k] + 1

\* C4: until the session is Solved the secret is one of the remaining
\* codes, and no step adds a code to the remaining codes.
C4_SecretStays ==
  /\ [](pc # "Solved" => code \in RemainingSet(possible_codes, all_codes))
  /\ [][RemainingSet(possible_codes', all_codes')
          \subseteq RemainingSet(possible_codes, all_codes)]_vars

\* Two rounds have pruned, the secret is not guessed yet and is still there
\* among other codes.
C4_Witness ==
  /\ pc = "Pruned" /\ guesses >= 2 /\ guess # code
  /\ possible_code_count >= 2
  /\ code \in RemainingSet(possible_codes, all_codes)

\* C5: a prune that no remaining code survives completes without a fault,
\* leaves the empty list and returns 0.
C5_EmptyPruneCompletes ==
  [][(pc = "Harness" /\ guesses' = guesses + 1
        /\ Survivors(RemainingCodes(possible_codes, all_codes),
                     guess', offer') = <<>>) =>
       /\ fault' = "none"
       /\ possible_codes' = NULL
       /\ possible_code_count' = 0]_vars
\* C6: the partition sizes of a round sum to the remaining count, and every
\* remaining candidate lies in the partition of exactly one worker.
C6_PartitionsCover ==
  pc = "Join" =>
    LET l == RemainingNodes(possible_codes, all_codes)
        sum[t \in 0 .. THREADS] ==
          IF t = 0 THEN 0 ELSE sum[t - 1] + partitions[t - 1].size
        part(t) == list_from(partitions[t].index, all_codes, partitions[t].size)
        inpart(n, t) == \E k \in 1 .. Len(part(t)) : part(t)[k] = n
    IN /\ sum[THREADS] = possible_code_count
       /\ \A k \in 1 .. Len(l) :
            Cardinality({t \in Workers : inpart(l[k], t)}) = 1

\* The least, over the offers that g gets from at least one code of R, of
\* the number of codes of R that give that offer.
LeastOfferCount(g, R) ==
  LET offers == {make_guess(g, R[k]) : k \in 1 .. Len(R)}
      count(o) == Cardinality({k \in 1 .. Len(R) : make_guess(g, R[k]) = o})
      counts == {count(o) : o \in offers}
  IN CHOOSE m \in counts : \A n \in counts : m <= n

\* C7: the score a worker computes for a candidate g is the least count over
\* the offers g gets from the remaining codes, g itself included, and every
\* bucket is zero again when the next candidate starts.
C7_ScoreIsLeastOfferCount ==
  [][\A w \in Workers :
       (wpc[w] = "score" /\ codes_checked'[w] = codes_checked[w] + 1) =>
         /\ min_removed'[w] =
              LeastOfferCount(all_codes[curr_guess[w]].code,
                              RemainingCodes(possible_codes, all_codes))
         /\ offer_results'[w] = zero_table]_vars

\* The workers inside the section guarded by next_guess_lock.
InSection == {w \in Workers : wpc[w] \in {"cs", "unlock"}}

MaxScore == CHOOSE m \in {score[w] : w \in Workers} :
              \A w \in Workers : score[w] <= m

\* C8: at most one worker is inside the compare-and-overwrite section; the
\* shared result is overwritten only by the worker inside it, with its own
\* result, when its score is strictly greater than the stored score; and
\* once all workers have joined the stored score is the greatest local
\* score and the stored guess the local best of a worker that reached it.
C8_SharedBestUnderLock ==
  /\ [](/\ Cardinality(InSection) <= 1
        /\ \A w \in InSection : next_guess_lock = w)
  /\ [](pc = "Joined" =>
          /\ next_guess_score = MaxScore
          /\ MaxScore > 0 =>
               \E w \in Workers :
                 /\ score[w] = MaxScore /\ best_guess[w] # NULL
                 /\ next_guess = all_codes[best_guess[w]].code)
  /\ [][(next_guess_score' # next_guess_score \/ next_guess' # next_guess) =>
          \/ pc = "Joined" /\ next_guess_score' = 0 /\ next_guess' = next_guess
          \/ \E w \in Workers :
               /\ wpc[w] = "cs" /\ InSection = {w}
               /\ score[w] > next_guess_score
               /\ next_guess_score' = score[w]
               /\ next_guess' = all_codes[best_guess[w]].code]_vars

\* All workers have joined, two of them found different positive scores and
\* the greater one is stored.
C8_Witness ==
  /\ pc = "Joined"
  /\ \E w1, w2 \in Workers :
       /\ score[w1] > score[w2] /\ score[w2] > 0
       /\ next_guess_score = score[w1]
       /\ next_guess = all_codes[best_guess[w1]].code

\* C11: make_guess gives the same goats and the same chickens when its two
\* arguments are exchanged, codes with repeated digits included, and a code
\* against itself gives CODE_LENGTH goats and no chickens.
C11_EvaluatorSymmetric ==
  pc = "Evaluated" =>
    /\ offer.goats = make_guess(code, guess).goats
    /\ offer.chickens = make_guess(code, guess).chickens
    /\ guess = code => offer = [goats |-> CODE_LENGTH, chickens |-> 0]

\* Two different codes with a repeated digit each, scored with a goat and a
\* chicken.
C11_Witness ==
  /\ pc = "Evaluated" /\ CODE_LENGTH = 3 /\ guess # code
  /\ \E i, j \in 1 .. CODE_LENGTH : i # j /\ guess[i] = guess[j]
  /\ \E i, j \in 1 .. CODE_LENGTH : i # j /\ code[i] = code[j]
  /\ offer.goats = 1 /\ offer.chickens >= 1

\* The number a code spells, read as CODE_LENGTH digits in base DIGITS with
\* the leftmost digit the most significant.
code_value(c) ==
  LET v[k \in 0 .. CODE_LENGTH] ==
        IF k = 0 THEN 0 ELSE v[k - 1] * DIGITS + c[k]
  IN v[CODE_LENGTH]

\* C12: every n below CODE_COUNT converts to a code that spells n; the node
\* main builds at index n holds that code, every code of the universe at
\* exactly one index, and the first list of possible codes is all of them
\* in index order.
C12_IndexRoundTrip ==
  /\ \A n \in 0 .. CODE_COUNT - 1 :
        /\ code_value(int_to_code(n).code) = n
        /\ \A i \in 1 .. CODE_LENGTH :
             int_to_code(n).code[i] \in 0 .. DIGITS - 1
  /\ pc \in {"Built", "AwaitingGuess"} =>
        /\ DOMAIN all_codes = 0 .. CODE_COUNT - 1
        /\ \A n \in 0 .. CODE_COUNT - 1 :
             /\ all_codes[n].code = int_to_code(n).code
             /\ code_value(all_codes[n].code) = n
        /\ \A c \in [1 .. CODE_LENGTH -> 0 .. DIGITS - 1] :
             Cardinality({n \in DOMAIN all_codes : all_codes[n].code = c}) = 1
        /\ RemainingNodes(possible_codes, all_codes) =
             [k \in 1 .. CODE_COUNT |-> k - 1]

\* The universe of 9 codes of two digits has been built.
C12_Witness ==
  /\ pc = "Built" /\ DIGITS = 3 /\ CODE_LENGTH = 2
  /\ all_codes[5].code = <<1, 2>>
  /\ Len(RemainingNodes(possible_codes, all_codes)) = 9

\* C20: int_to_code stores at indexes 0 .. CODE_LENGTH - 1 only, for every
\* number the program hands it: the number on the input line, every index
\* of the universe, and the initial guess, also when the number is
\* CODE_COUNT or more.
C20_ConversionStoresInside ==
  [][/\ pc = "Start" => ~int_to_code(code_line).oob
     /\ pc = "SecretRead" =>
          \A i \in 0 .. CODE_COUNT - 1 : ~int_to_code(i).oob
     /\ pc = "Built" => ~int_to_code(INITIAL_GUESS).oob]_vars

\* C13: whenever a worker scores a candidate, the index goats * CODE_LENGTH +
\* chickens it increments lies in 0 .. CODE_LENGTH * CODE_LENGTH - 1 for
\* every code of the list of possible codes, the candidate itself included.
C13_BucketInsideTable ==
  [][\A w \in Workers :
       (/\ wpc[w] = "score" /\ codes_checked[w] < size[w]
        /\ curr_guess[w] # NULL
        /\ codes_checked'[w] # codes_checked[w] \/ fault' = "oob_store") =>
         \A c \in RemainingSet(possible_codes, all_codes) :
           LET o == make_guess(all_codes[curr_guess[w]].code, c)
           IN (o.goats * CODE_LENGTH) + o.chickens
                \in 0 .. CODE_LENGTH * CODE_LENGTH - 1]_vars

\* C14: once every worker has been joined the shared score is 0 only when
\* no possible code is left, so with at least one possible code the next
\* guess is the one a worker installed, never the first possible code taken
\* because nothing was installed.
C14_SomeWorkerInstalls ==
  (pc = "Joined" /\ possible_code_count >= 1) => next_guess_score > 0

Running == {w \in Workers : wpc[w] \in {"score", "cs", "unlock"}}

\* C16: main is past the joins, where it reads the shared result and then
\* prunes for the next round, only when every worker of the round has
\* ended; and no step taken from the start of the first thread to the last
\* join, a worker's or main's, changes the list of possible codes.
C16_ListLentReadOnly ==
  /\ [](pc \in {"Joined", "AwaitingGuess", "Scored", "Solved"} =>
          Running = {})
  /\ [][/\ (pc = "Scored" /\ pc' = "Pruned") => Running = {}
        /\ (pc = "Joined" /\ pc' # pc) =>
             \A w \in Workers : wpc[w] = "done"
        /\ (Running # {} \/ Running' # {} \/ pc \in {"Pruned", "Join"}) =>
             /\ all_codes' = all_codes
             /\ possible_codes' = possible_codes]_vars

\* The second worker has scored two candidates and not ended while main
\* waits in the join of the first, which has ended.
C16_Witness ==
  /\ pc = "Join" /\ thread = 0 /\ THREADS = 2
  /\ wpc[0] = "done" /\ wpc[1] = "score"
  /\ codes_checked[0] >= 1 /\ codes_checked[1] >= 2

\* C17: the candidate a worker is scoring is a node of the list of possible
\* codes as the prune of this round left it; every guess chosen at the end
\* of a round, from next_guess or as the first possible code, is a code of
\* that list; and no code is guessed twice.
C17_GuessesFromRemaining ==
  /\ \A w \in Workers :
       (wpc[w] = "score" /\ codes_checked[w] < size[w]
          /\ curr_guess[w] # NULL) =>
         \E k \in 1 .. possible_code_count :
           RemainingNodes(possible_codes, all_codes)[k] = curr_guess[w]
  /\ (pc = "AwaitingGuess" /\ guesses >= 1) =>
       guess \in RemainingSet(possible_codes, all_codes)
  /\ \A i, j \in 1 .. Len(output) :
       output[i].guess = output[j].guess => i = j

\* The third guess is about to be played; it was the first possible code,
\* taken because no worker installed a result, and the second guess came
\* from next_guess.
C17_Witness ==
  /\ pc = "AwaitingGuess" /\ guesses = 2
  /\ output[2].guess = next_guess
  /\ guess # next_guess
  /\ guess = all_codes[possible_codes].code
  /\ possible_codes # 0

\* C18: a worker whose partition has size 0 scores no candidate and leaves
\* next_guess and next_guess_score as they are; and a round whose prune
\* keeps no code runs to the choice of the next guess without a read or a
\* store through a null pointer.
C18_EmptyRoundCompletes ==
  /\ [](fault # "null_deref")
  /\ [][\A w \in Workers :
          (size[w] = 0 /\ wpc[w] # "idle" /\ wpc'[w] # wpc[w]) =>
            /\ codes_checked'[w] = 0
            /\ next_guess' = next_guess
            /\ next_guess_score' = next_guess_score
            /\ wpc'[w] \in {"cs", "unlock", "done", "idle"}]_vars

\* C19: from the start on and after every prune that keeps a code, the list
\* from possible_codes comes to a null next without meeting a node twice,
\* its nodes stand in strictly increasing index order, and it has as many
\* nodes as the prune counted; main's walk to the next partition and every
\* worker's walk through its partition never step on from the null pointer.
C19_ListWellFormed ==
  LET l == RemainingNodes(possible_codes, all_codes)
  IN /\ Len(l) >= 1 /\ Len(l) <= CODE_COUNT
     /\ all_codes[l[Len(l)]].next = NULL
     /\ \A k \in 1 .. Len(l) - 1 : l[k] < l[k + 1]
     /\ \A k \in 1 .. Len(l) : l[k] \in 0 .. CODE_COUNT - 1
     /\ pc \in {"Pruned", "Join", "Joined"} => Len(l) = possible_code_count
     /\ fault # "null_deref"
     /\ pc = "Pruned" =>
          /\ curr_code # NULL
          /\ ~walk_faults(curr_code,
                          IF thread < THREADS - 1
                          THEN possible_code_count \div THREADS ELSE 0)
     /\ \A w \in Workers :
          (wpc[w] = "score" /\ codes_checked[w] < size[w]) =>
            curr_guess[w] # NULL

\* Two workers walk the two halves of a list of four codes that a prune
\* left; the second has come to its last node, the last of the list.
C19_Witness ==
  /\ pc = "Join" /\ guesses >= 1 /\ THREADS = 2
  /\ possible_code_count = 4
  /\ possible_codes # 0
  /\ codes_checked[0] = 1 /\ wpc[0] = "score"
  /\ codes_checked[1] = 1 /\ wpc[1] = "score"
  /\ all_codes[curr_guess[1]].next = NULL

====
